---- MODULE Spec2Model ----
(***************************************************************************)
(* A model of the single-file HTTP/1.1 server in src/src/main.rs.          *)
(*                                                                         *)
(* Strings are modelled as what a Rust String is: a sequence of bytes.     *)
(* An ASCII byte is written as the one-character string of its character;  *)
(* "xC3" and "xA9" are the two bytes of a two-byte UTF-8 scalar (e-acute), *)
(* and "xFF" is a byte that occurs in no well-formed UTF-8 text.  The byte  *)
(* length of a string is therefore the Len of its sequence.                *)
(***************************************************************************)
EXTENDS Integers, Sequences, FiniteSets, TLC

(***************************************************************************)
(* String literals of the source.                                          *)
(***************************************************************************)
CRLF == <<"\r", "\n">>
CRLF2 == <<"\r", "\n", "\r", "\n">>
SP == <<" ">>
COLON_SP == <<":", " ">>
SLASH == <<"/">>
S_GET == <<"G", "E", "T">>
S_POST == <<"P", "O", "S", "T">>
S_HTTP11 == <<"H", "T", "T", "P", "/", "1", ".", "1">>
S_OK == <<"O", "K">>
S_Created == <<"C", "r", "e", "a", "t", "e", "d">>
S_NotFound == <<"N", "o", "t", " ", "F", "o", "u", "n", "d">>
S_echo == <<"e", "c", "h", "o">>
S_user_agent == <<"u", "s", "e", "r", "-", "a", "g", "e", "n", "t">>
S_files == <<"f", "i", "l", "e", "s">>
S_UserAgent == <<"U", "s", "e", "r", "-", "A", "g", "e", "n", "t">>
S_ContentType == <<"C", "o", "n", "t", "e", "n", "t", "-", "T", "y", "p", "e">>
S_ContentLength == <<"C", "o", "n", "t", "e", "n", "t", "-", "L", "e", "n", "g", "t", "h">>
S_text_plain == <<"t", "e", "x", "t", "/", "p", "l", "a", "i", "n">>
S_octet_stream == <<"a", "p", "p", "l", "i", "c", "a", "t", "i", "o", "n", "/", "o", "c", "t", "e", "t", "-", "s", "t", "r", "e", "a", "m">>
S_directory == <<"-", "-", "d", "i", "r", "e", "c", "t", "o", "r", "y">>

\* const MAX_REQUEST_SIZE: usize = 1024 * 32
MAX_REQUEST_SIZE == 1024 * 32

(***************************************************************************)
(* The string primitives of the Rust standard library the source calls.    *)
(***************************************************************************)
Min(a, b) == IF a < b THEN a ELSE b

\* &s[..n]
Take(s, n) == SubSeq(s, 1, Min(n, Len(s)))

\* &s[n..]
Drop(s, n) == SubSeq(s, Min(n, Len(s)) + 1, Len(s))

\* pat occurs in s at byte offset i (1-based)
MatchAt(s, pat, i) ==
    /\ i + Len(pat) - 1 <= Len(s)
    /\ SubSeq(s, i, i + Len(pat) - 1) = pat

\* the offset of the first occurrence of pat in s, 0 when there is none
Find(s, pat) ==
    LET hits == {i \in 1..Len(s) : MatchAt(s, pat, i)}
    IN  IF hits = {} THEN 0 ELSE CHOOSE i \in hits : \A j \in hits : i <= j

\* str::split_once: Some((before, after)) around the first occurrence, or None
split_once(s, pat) ==
    LET i == Find(s, pat)
    IN  IF i = 0
        THEN [found |-> FALSE, before |-> <<>>, after |-> <<>>]
        ELSE [found |-> TRUE,
              before |-> SubSeq(s, 1, i - 1),
              after |-> SubSeq(s, i + Len(pat), Len(s))]

\* str::split(..).collect(): the pieces between the occurrences of pat; a
\* string without the pattern, the empty string included, is one piece
RECURSIVE split(_, _)
split(s, pat) ==
    LET first == split_once(s, pat)
    IN  IF first.found
        THEN <<first.before>> \o split(first.after, pat)
        ELSE <<s>>

\* [..].join(sep)
RECURSIVE join(_, _)
join(parts, sep) ==
    IF parts = <<>> THEN <<>>
    ELSE IF Len(parts) = 1 THEN parts[1]
    ELSE parts[1] \o sep \o join(Tail(parts), sep)

Digits == <<"0", "1", "2", "3", "4", "5", "6", "7", "8", "9">>

\* ToString for the unsigned and i32 values the source formats (all >= 0)
RECURSIVE to_string(_)
to_string(n) ==
    IF n < 10 THEN <<Digits[n + 1]>>
    ELSE to_string(n \div 10) \o <<Digits[(n % 10) + 1]>>

\* std::str::from_utf8(..).is_ok(), on the bytes of this model
RECURSIVE from_utf8_ok(_)
from_utf8_ok(bytes) ==
    IF bytes = <<>> THEN TRUE
    ELSE IF bytes[1] \notin {"xC3", "xA9", "xFF"} THEN from_utf8_ok(Tail(bytes))
    ELSE IF bytes[1] = "xC3" /\ Len(bytes) >= 2 /\ bytes[2] = "xA9"
         THEN from_utf8_ok(SubSeq(bytes, 3, Len(bytes)))
    ELSE FALSE

(***************************************************************************)
(* anyhow::Result: Ok(value) or Err(chain of context messages).            *)
(***************************************************************************)
NoRequestLine == [method |-> <<>>, target |-> <<>>, version |-> <<>>]
NoRequest == [request_line |-> NoRequestLine, headers |-> <<>>, body |-> <<>>]
Ok(v) == [ok |-> TRUE, val |-> v, err |-> <<>>]
Err(msg) == [ok |-> FALSE, val |-> NoRequest, err |-> <<msg>>]

(***************************************************************************)
(* fn parse_str_to_request(request: &str) -> Result<Request>               *)
(***************************************************************************)
parse_headers(headers) ==
    LET lines == split(headers, CRLF)
        kv == [i \in 1..Len(lines) |-> split_once(lines[i], COLON_SP)]
    IN  IF \E i \in 1..Len(lines) : ~kv[i].found
        THEN [found |-> FALSE, val |-> <<>>]
        ELSE [found |-> TRUE,
              val |-> [i \in 1..Len(lines) |->
                          [key |-> kv[i].before, value |-> kv[i].after]]]

\* mutant of parse_str_to_request: the body ends at its first CRLF
parse_str_to_request_one_line(request) ==
    LET first == split_once(request, CRLF)
        request_line_components == split(first.before, SP)
        rest == split_once(first.after, CRLF2)
        parsed_headers == parse_headers(rest.before)
    IN  IF ~first.found THEN Err("couldn't find first CRLF")
        ELSE IF Len(request_line_components) < 3
        THEN Err("not enough components in request line")
        ELSE IF ~rest.found THEN Err("couldn't find double CRLF")
        ELSE IF ~parsed_headers.found THEN Err("failed to parse headers")
        ELSE Ok([request_line |->
                    [method |-> request_line_components[1],
                     target |-> request_line_components[2],
                     version |-> request_line_components[3]],
                 headers |-> parsed_headers.val,
                 body |-> split_once(rest.after, CRLF).before])

parse_str_to_request(request) ==
    LET first == split_once(request, CRLF)
        request_line_components == split(first.before, SP)
        rest == split_once(first.after, CRLF2)
        parsed_headers == parse_headers(rest.before)
    IN  IF ~first.found THEN Err("couldn't find first CRLF")
        ELSE IF Len(request_line_components) < 3
        THEN Err("not enough components in request line")
        ELSE IF ~rest.found THEN Err("couldn't find double CRLF")
        ELSE IF ~parsed_headers.found THEN Err("failed to parse headers")
        ELSE Ok([request_line |->
                    [method |-> request_line_components[1],
                     target |-> request_line_components[2],
                     version |-> request_line_components[3]],
                 headers |-> parsed_headers.val,
                 body |-> rest.after])

(***************************************************************************)
(* enum Endpoint and fn parse_target(target: String) -> Endpoint           *)
(***************************************************************************)
Index == [tag |-> "Index", arg |-> <<>>]
Echo(s) == [tag |-> "Echo", arg |-> s]
UserAgent == [tag |-> "UserAgent", arg |-> <<>>]
File(s) == [tag |-> "File", arg |-> s]
NotFound == [tag |-> "NotFound", arg |-> <<>>]

\* mutant of match_route: echo and files take the whole rest of the path
match_route_rest(components) ==
    IF Len(components) < 1 THEN NotFound
    ELSE LET route == components[1]
         IN  IF route = <<>> THEN Index
             ELSE IF route = S_echo
             THEN IF Len(components) < 2 THEN NotFound
                  ELSE Echo(join(Tail(components), SLASH))
             ELSE IF route = S_user_agent THEN UserAgent
             ELSE IF route = S_files
             THEN IF Len(components) < 2 THEN NotFound
                  ELSE File(join(Tail(components), SLASH))
             ELSE NotFound

\* the `match route` of parse_target, on the components after the first
match_route(components) ==
    IF Len(components) < 1 THEN NotFound
    ELSE LET route == components[1]
         IN  IF route = <<>> THEN Index
             ELSE IF route = S_echo
             THEN IF Len(components) < 2 THEN NotFound
                  ELSE Echo(components[2])
             ELSE IF route = S_user_agent THEN UserAgent
             ELSE IF route = S_files
             THEN IF Len(components) < 2 THEN NotFound
                  ELSE File(components[2])
             ELSE NotFound

\* mutant of parse_target: a target without the leading slash is routed as
\* if it had one
parse_target_slashless(target) ==
    LET components == split(target, SLASH)
    IN  IF Len(components) < 1 THEN NotFound
        ELSE IF components[1] # <<>> THEN match_route(components)
        ELSE match_route(Tail(components))

parse_target(target) ==
    LET components == split(target, SLASH)
    IN  IF Len(components) < 1 THEN NotFound
        ELSE IF components[1] # <<>> THEN NotFound
        ELSE match_route(Tail(components))

(***************************************************************************)
(* The response constructors and the serializer.                           *)
(***************************************************************************)
\* mutant of respond: the reason phrase is also sent as the body
respond_with_text(status_code, status_text) ==
    [status_line |-> [version |-> S_HTTP11,
                      status_code |-> status_code,
                      status_text |-> status_text],
     headers |-> <<>>,
     body |-> status_text]

respond(status_code, status_text) ==
    [status_line |-> [version |-> S_HTTP11,
                      status_code |-> status_code,
                      status_text |-> status_text],
     headers |-> <<>>,
     body |-> <<>>]

\* mutant of respond_with_body: Content-Length counts characters, not bytes
respond_with_body_chars(content_type, contents) ==
    [status_line |-> [version |-> S_HTTP11,
                      status_code |-> 200,
                      status_text |-> S_OK],
     headers |-> <<[key |-> S_ContentType, value |-> content_type],
                   [key |-> S_ContentLength,
                    value |-> to_string(Len(SelectSeq(contents,
                                            LAMBDA b : b # "xA9")))]>>,
     body |-> contents]

respond_with_body(content_type, contents) ==
    [status_line |-> [version |-> S_HTTP11,
                      status_code |-> 200,
                      status_text |-> S_OK],
     headers |-> <<[key |-> S_ContentType, value |-> content_type],
                   [key |-> S_ContentLength, value |-> to_string(Len(contents))]>>,
     body |-> contents]

\* mutant of not_found: the reason phrase travels as the body
not_found_with_body ==
    [status_line |-> [version |-> S_HTTP11,
                      status_code |-> 404,
                      status_text |-> S_NotFound],
     headers |-> <<>>,
     body |-> S_NotFound]

not_found ==
    [status_line |-> [version |-> S_HTTP11,
                      status_code |-> 404,
                      status_text |-> S_NotFound],
     headers |-> <<>>,
     body |-> <<>>]

parse_response_to_str(response) ==
    LET status_line == response.status_line
        parsed_headers == [i \in 1..Len(response.headers) |->
                              response.headers[i].key \o COLON_SP
                                  \o response.headers[i].value]
    IN  join(<<status_line.version,
               to_string(status_line.status_code),
               status_line.status_text>>, SP)
            \o CRLF
            \o join(parsed_headers, CRLF)
            \o CRLF2
            \o response.body

(***************************************************************************)
(* The filesystem collaborator (tokio::fs).  A disk maps each existing     *)
(* path to its entry; a path outside the domain does not exist.            *)
(***************************************************************************)
DirEntry == [kind |-> "dir", mode |-> "rw", data |-> <<>>]
FileEntry(mode, data) == [kind |-> "file", mode |-> mode, data |-> data]

\* mutant of open_ok: a file the process may not read opens all the same
open_ok_unchecked(disk, path) == path \in DOMAIN disk

\* File::open(path).await is Ok: the path exists and may be read
open_ok(disk, path) == path \in DOMAIN disk /\ disk[path].mode # "none"

\* file.read_to_string(..).await is Ok: a regular file holding UTF-8 text
read_ok(disk, path) == disk[path].kind = "file" /\ from_utf8_ok(disk[path].data)

\* File::create(path).await is Ok: a new path, or a writable regular file
create_ok(disk, path) ==
    path \notin DOMAIN disk
        \/ (disk[path].kind = "file" /\ disk[path].mode = "rw")

\* mutant of created: the new file replaces every other file of the disk
created_sweeping(disk, path) ==
    [q \in {p \in DOMAIN disk : disk[p].kind = "dir"} \cup {path} |->
        IF q = path THEN FileEntry("rw", <<>>) ELSE disk[q]]

\* the disk after File::create(path): the file exists and is empty
created(disk, path) ==
    [q \in DOMAIN disk \cup {path} |->
        IF q = path THEN FileEntry("rw", <<>>) ELSE disk[q]]

\* the disk after the handle created at path wrote data at its offset 0
written(disk, path, data) ==
    [disk EXCEPT ![path].data = data \o Drop(@, Len(data))]

\* the base directory: the argument after "--directory", "/" by default
directory_of(argv) ==
    LET pos == {i \in 1..Len(argv) : argv[i] = S_directory}
    IN  IF pos = {} THEN SLASH
        ELSE LET i == CHOOSE k \in pos : \A j \in pos : k <= j
             IN  IF i + 1 > Len(argv) THEN SLASH ELSE argv[i + 1]

(***************************************************************************)
(* State.                                                                  *)
(*   main_pc  where fn main is: "bind", "accept" (the loop) or "exited"    *)
(*   args     the process's command line, read by every File request       *)
(*   fs       the disk                                                     *)
(*   fs0      the disk the process started with (history)                  *)
(*   conns    the spawned process_request tasks, in accept order           *)
(***************************************************************************)
VARIABLES main_pc, args, fs, fs0, conns

vars == <<main_pc, args, fs, fs0, conns>>

NoResponse == respond(0, <<>>)
NoWrite == [pending |-> FALSE, data |-> <<>>]

\* a task just spawned on an accepted socket whose client sent `bytes`
NewConn(bytes, closed) ==
    [pc |-> "Accepted",
     inbox |-> bytes,
     buf |-> <<>>,
     request_string |-> <<>>,
     request |-> NoRequest,
     endpoint |-> NotFound,
     file_path |-> <<>>,
     response |-> NoResponse,
     out |-> <<>>,
     err |-> <<>>,
     bg |-> NoWrite,
     prior |-> closed]

Conns == 1..Len(conns)

\* mutant of Fail: the failing task first sends the 404 response
Fail_replying(c, chain) ==
    conns' = [conns EXCEPT ![c].pc = "Failed",
                           ![c].err = chain,
                           ![c].out = parse_response_to_str(not_found)]

\* mutant of Fail: the error takes every unfinished task down with it
Fail_poisoning(c, chain) ==
    conns' = [d \in Conns |->
                 IF d = c \/ conns[d].pc \notin {"Closed", "Failed"}
                 THEN [conns[d] EXCEPT !.pc = "Failed", !.err = chain]
                 ELSE conns[d]]

\* the `?` operator: the task returns Err(chain) and drops the stream
Fail(c, chain) ==
    conns' = [conns EXCEPT ![c].pc = "Failed", ![c].err = chain]

Running == main_pc = "accept"

(***************************************************************************)
(* fn main: bind, then accept and spawn forever.                           *)
(***************************************************************************)
\* TcpListener::bind("127.0.0.1:4221").await is Ok
BindOk ==
    /\ main_pc = "bind"
    /\ main_pc' = "accept"
    /\ UNCHANGED <<args, fs, fs0, conns>>

\* bind fails: `?` returns the error from main and the process ends
BindFail ==
    /\ main_pc = "bind"
    /\ main_pc' = "exited"
    /\ UNCHANGED <<args, fs, fs0, conns>>

\* listener.accept().await is Ok: spawn process_request(socket); `bytes` is
\* what the client has sent when the task reads
Accept(bytes) ==
    /\ Running
    /\ conns' = Append(conns,
                       NewConn(bytes, {d \in Conns : conns[d].pc = "Closed"}))
    /\ UNCHANGED <<main_pc, args, fs, fs0>>

\* accept fails: `?` returns the error from main; the runtime shuts down
\* and no spawned task is polled again
AcceptFail ==
    /\ Running
    /\ main_pc' = "exited"
    /\ UNCHANGED <<args, fs, fs0, conns>>

(***************************************************************************)
(* async fn process_request(mut stream: TcpStream) -> Result<()>           *)
(***************************************************************************)
\* the task is polled for the first time and suspends in stream.read
StartRead(c) ==
    /\ Running
    /\ conns[c].pc = "Accepted"
    /\ conns' = [conns EXCEPT ![c].pc = "Reading"]
    /\ UNCHANGED <<main_pc, args, fs, fs0>>

\* stream.read(&mut buf).await is Err
ReadFail(c) ==
    /\ Running
    /\ conns[c].pc = "Reading"
    /\ Fail(c, <<"couldn't read from TCP stream">>)
    /\ UNCHANGED <<main_pc, args, fs, fs0>>

\* stream.read is Ok(bytes_read): one read of at most MAX_REQUEST_SIZE bytes,
\* then from_utf8 and parse_str_to_request, all without suspending
ReadParse(c) ==
    /\ Running
    /\ conns[c].pc = "Reading"
    /\ LET buf == Take(conns[c].inbox, MAX_REQUEST_SIZE)
           left == Drop(conns[c].inbox, MAX_REQUEST_SIZE)
           parsed == parse_str_to_request(buf)
       IN  IF ~from_utf8_ok(buf)
           THEN conns' = [conns EXCEPT ![c].pc = "Failed",
                                       ![c].inbox = left,
                                       ![c].buf = buf,
                                       ![c].err = <<"stream not in valid UTF-8">>]
           ELSE IF ~parsed.ok
           THEN conns' = [conns EXCEPT ![c].pc = "Failed",
                                       ![c].inbox = left,
                                       ![c].buf = buf,
                                       ![c].request_string = buf,
                                       ![c].err = <<"couldn't parse HTTP request">>
                                                      \o parsed.err]
           ELSE conns' = [conns EXCEPT ![c].pc = "Parsed",
                                       ![c].inbox = left,
                                       ![c].buf = buf,
                                       ![c].request_string = buf,
                                       ![c].request = parsed.val]
    /\ UNCHANGED <<main_pc, args, fs, fs0>>

\* the client sends `more` on the open connection after the task's read has
\* returned; the bytes wait in the socket's receive queue
ClientSend(c, more) ==
    /\ Running
    /\ conns[c].pc \notin {"Accepted", "Reading", "Closed", "Failed"}
    /\ conns[c].inbox = <<>>
    /\ conns' = [conns EXCEPT ![c].inbox = more]
    /\ UNCHANGED <<main_pc, args, fs, fs0>>

\* let endpoint = parse_target(request.request_line.target)
Route(c) ==
    /\ Running
    /\ conns[c].pc = "Parsed"
    /\ conns' = [conns EXCEPT
                    ![c].pc = "Routed",
                    ![c].endpoint = parse_target(conns[c].request.request_line.target)]
    /\ UNCHANGED <<main_pc, args, fs, fs0>>

\* mutant of user_agent: the last header with the key wins
user_agent_last(headers) ==
    LET hits == {i \in 1..Len(headers) : headers[i].key = S_UserAgent}
    IN  IF hits = {} THEN <<>>
        ELSE headers[CHOOSE i \in hits : \A j \in hits : i >= j].value

\* the value of the first header whose key is "User-Agent", "" without one
user_agent(headers) ==
    LET hits == {i \in 1..Len(headers) : headers[i].key = S_UserAgent}
    IN  IF hits = {} THEN <<>>
        ELSE headers[CHOOSE i \in hits : \A j \in hits : i <= j].value

\* mutant of file_path_of: the name is joined to the directory with a slash
file_path_of_joined(argv, path) == directory_of(argv) \o SLASH \o path

\* directory.to_owned() + path.as_str()
file_path_of(argv, path) == directory_of(argv) \o path

IsFileWith(c, methods) ==
    /\ conns[c].endpoint.tag = "File"
    /\ conns[c].request.request_line.method \in methods

\* the match arms that do not await: Index, Echo, UserAgent, NotFound, and
\* File with a method that is neither GET nor POST
HandleSimple(c) ==
    /\ Running
    /\ conns[c].pc = "Routed"
    /\ ~IsFileWith(c, {S_GET, S_POST})
    /\ LET endpoint == conns[c].endpoint
           response ==
               CASE endpoint.tag = "Index" -> respond(200, S_OK)
                 [] endpoint.tag = "Echo" ->
                        respond_with_body(S_text_plain, endpoint.arg)
                 [] endpoint.tag = "UserAgent" ->
                        respond_with_body(S_text_plain,
                                          user_agent(conns[c].request.headers))
                 [] OTHER -> not_found
       IN  conns' = [conns EXCEPT
                        ![c].pc = "Handled",
                        ![c].response = response,
                        ![c].file_path =
                            IF endpoint.tag = "File"
                            THEN file_path_of(args, endpoint.arg) ELSE <<>>]
    /\ UNCHANGED <<main_pc, args, fs, fs0>>

\* File, GET: File::open(file_path).await; an Err of any kind is not_found()
FileOpen(c) ==
    /\ Running
    /\ conns[c].pc = "Routed"
    /\ IsFileWith(c, {S_GET})
    /\ LET file_path == file_path_of(args, conns[c].endpoint.arg)
       IN  IF open_ok(fs, file_path)
           THEN conns' = [conns EXCEPT ![c].pc = "FileOpened",
                                       ![c].file_path = file_path]
           ELSE conns' = [conns EXCEPT ![c].pc = "Handled",
                                       ![c].file_path = file_path,
                                       ![c].response = not_found]
    /\ UNCHANGED <<main_pc, args, fs, fs0>>

\* mutant of FileRead: the contents go out as a body without headers
FileRead_bare(c) ==
    /\ Running
    /\ conns[c].pc = "FileOpened"
    /\ IF read_ok(fs, conns[c].file_path)
       THEN conns' = [conns EXCEPT
                        ![c].pc = "Handled",
                        ![c].response =
                            [respond(200, S_OK) EXCEPT
                                !.body = fs[conns[c].file_path].data]]
       ELSE Fail(c, <<"couldn't read from file">>)
    /\ UNCHANGED <<main_pc, args, fs, fs0>>

\* file.read_to_string(&mut contents).await, on the file as it is now
FileRead(c) ==
    /\ Running
    /\ conns[c].pc = "FileOpened"
    /\ IF read_ok(fs, conns[c].file_path)
       THEN conns' = [conns EXCEPT
                        ![c].pc = "Handled",
                        ![c].response =
                            respond_with_body(S_octet_stream,
                                              fs[conns[c].file_path].data)]
       ELSE Fail(c, <<"couldn't read from file">>)
    /\ UNCHANGED <<main_pc, args, fs, fs0>>

\* File, POST: File::create(file_path).await creates or truncates the file
FileCreate(c) ==
    /\ Running
    /\ conns[c].pc = "Routed"
    /\ IsFileWith(c, {S_POST})
    /\ LET file_path == file_path_of(args, conns[c].endpoint.arg)
       IN  IF create_ok(fs, file_path)
           THEN /\ fs' = created(fs, file_path)
                /\ conns' = [conns EXCEPT ![c].pc = "FileCreated",
                                          ![c].file_path = file_path]
           ELSE /\ fs' = fs
                /\ conns' = [conns EXCEPT
                                ![c].pc = "Failed",
                                ![c].file_path = file_path,
                                ![c].err = <<"couldn't create new file">>]
    /\ UNCHANGED <<main_pc, args, fs0>>

\* file.write_all(request.body.as_bytes()).await, then respond(201, "Created").
\* A tokio::fs::File write copies the bytes into the handle's buffer, hands
\* them to the blocking pool and returns Ok at once; the source never calls
\* flush, so the bytes reach the file later (FileWriteBack).  An empty body
\* makes no write at all.
FileWrite(c) ==
    /\ Running
    /\ conns[c].pc = "FileCreated"
    /\ conns' = [conns EXCEPT
                    ![c].pc = "Handled",
                    ![c].bg = [pending |-> conns[c].request.body # <<>>,
                               data |-> conns[c].request.body],
                    ![c].response = respond(201, S_Created)]
    /\ UNCHANGED <<main_pc, args, fs, fs0>>

\* the blocking pool performs the write a dropped handle left in flight
FileWriteBack(c) ==
    /\ conns[c].bg.pending
    /\ fs' = written(fs, conns[c].file_path, conns[c].bg.data)
    /\ conns' = [conns EXCEPT ![c].bg = NoWrite]
    /\ UNCHANGED <<main_pc, args, fs0>>

\* the write in flight fails (disk full, I/O error): the error is kept for
\* the handle's next operation, and a dropped handle has none, so it is lost
FileWriteLost(c) ==
    /\ conns[c].bg.pending
    /\ conns' = [conns EXCEPT ![c].bg = NoWrite]
    /\ UNCHANGED <<main_pc, args, fs, fs0>>

\* mutant of SocketWrite: the stream is dropped in the same step
SocketWrite_closing(c) ==
    /\ Running
    /\ conns[c].pc = "Handled"
    /\ conns' = [conns EXCEPT
                    ![c].pc = "Closed",
                    ![c].out = parse_response_to_str(conns[c].response)]
    /\ UNCHANGED <<main_pc, args, fs, fs0>>

\* stream.write_all(response_str.as_bytes()).await is Ok
SocketWrite(c) ==
    /\ Running
    /\ conns[c].pc = "Handled"
    /\ conns' = [conns EXCEPT
                    ![c].pc = "Written",
                    ![c].out = parse_response_to_str(conns[c].response)]
    /\ UNCHANGED <<main_pc, args, fs, fs0>>

\* stream.write_all is Err after the socket took k bytes of the response
SocketWriteFail(c, k) ==
    /\ Running
    /\ conns[c].pc = "Handled"
    /\ k < Len(parse_response_to_str(conns[c].response))
    /\ conns' = [conns EXCEPT
                    ![c].pc = "Failed",
                    ![c].out = Take(parse_response_to_str(conns[c].response), k),
                    ![c].err = <<"couldn't write to TCP stream">>]
    /\ UNCHANGED <<main_pc, args, fs, fs0>>

\* mutant of Close: keep-alive, the task goes back to read the next request
Close_keepalive(c) ==
    /\ Running
    /\ conns[c].pc = "Written"
    /\ conns' = [conns EXCEPT ![c].pc = "Reading"]
    /\ UNCHANGED <<main_pc, args, fs, fs0>>

\* Ok(()): the task ends and the stream is dropped, closing the connection
Close(c) ==
    /\ Running
    /\ conns[c].pc = "Written"
    /\ conns' = [conns EXCEPT ![c].pc = "Closed"]
    /\ UNCHANGED <<main_pc, args, fs, fs0>>

(***************************************************************************)
(* The environment: command lines, initial disks and client requests.      *)
(***************************************************************************)
\* the number of connections the listener accepts in a run
MaxConns == 2

\* a failed socket write is modelled for up to this many bytes already sent
MaxPartial == 1

\* the longest request target of the sweep over targets, in path segments
MaxSegs == 4

S_PUT == <<"P", "U", "T">>
S_prog == <<"s">>
S_dir == <<"/", "d", "/">>
S_a == <<"a">>
S_old == <<"o", "l", "xC3", "xA9">>
S_hdr == S_UserAgent \o COLON_SP \o <<"c">>
T_files_a == SLASH \o S_files \o SLASH \o S_a
S_b == <<"b">>
T_files_b == SLASH \o S_files \o SLASH \o S_b

\* a request as a client puts it on the wire
Req(method, target, headers, body) ==
    method \o SP \o target \o SP \o S_HTTP11 \o CRLF \o headers \o CRLF2 \o body

\* the disk holding the base directory and, with an entry, the file "a" in it
Disk(dir, entries) ==
    [q \in {dir} \cup {dir \o S_a : e \in entries} |->
        IF q = dir THEN DirEntry ELSE CHOOSE e \in entries : TRUE]

\* ---- the server under concurrent connections ----
ArgLists == {<<S_prog, S_directory, S_dir>>}

Disks(dir) == {Disk(dir, {}), Disk(dir, {FileEntry("rw", S_old)})}

Requests ==
    {Req(S_GET, T_files_a, S_hdr, <<>>),
     Req(S_POST, T_files_a, S_hdr, <<"B">>),
     Req(S_GET, SLASH \o S_echo \o SLASH \o <<"x">>, S_hdr, <<>>),
     S_GET \o SP \o SLASH}

\* ---- one connection, over a wide range of requests ----
ArgListsOne ==
    {<<S_prog>>,
     <<S_prog, S_directory, S_dir>>,
     <<S_prog, S_directory, <<"/", "d">>, S_directory, S_dir>>,
     <<S_prog, S_directory>>}

\* the file "a": missing, readable text, unreadable, or not UTF-8 text
DisksOne(dir) ==
    {Disk(dir, {}),
     Disk(dir, {FileEntry("rw", S_old)}),
     Disk(dir, {FileEntry("none", S_old)}),
     Disk(dir, {FileEntry("rw", <<"o", "xFF">>)})}

Methods == {S_GET, S_POST, S_PUT}

Segments ==
    {<<>>, S_echo, S_files, S_user_agent, S_a, <<".", ".">>, <<"x", "xC3", "xA9">>}

\* every target of at most MaxSegs segments: with and without a leading
\* slash, with empty segments, and with segments after the consulted ones
SweepTargets ==
    {join(segs, SLASH) : segs \in UNION {[1..n -> Segments] : n \in 1..MaxSegs}}

CoreTargets ==
    {SLASH,
     SLASH \o S_echo \o SLASH \o <<"x", "xC3", "xA9">>,
     SLASH \o S_user_agent,
     T_files_a,
     T_files_b,
     SLASH \o S_files \o SLASH,
     SLASH \o S_files,
     S_echo \o SLASH \o S_a,
     <<>>}

HeaderBlocks ==
    {<<>>,
     S_hdr,
     S_hdr \o CRLF \o S_UserAgent \o COLON_SP \o <<"d">>,
     <<"H">> \o COLON_SP \o <<"h">> \o CRLF \o S_hdr \o COLON_SP \o <<"e">>,
     S_user_agent \o COLON_SP \o <<"c">>,
     S_ContentLength \o COLON_SP \o <<"5">>,
     S_UserAgent \o <<":">> \o <<"c">>}

Bodies == {<<>>, <<"B">>, <<"x", "xC3", "xA9">>, <<"a">> \o CRLF2 \o <<"b">>}

\* requests the parser must refuse, or reads differently from the client
OddRequests ==
    {<<>>,
     S_GET,
     S_GET \o SP \o SLASH \o CRLF \o S_hdr \o CRLF2,
     S_GET \o CRLF \o S_hdr \o CRLF2,
     S_GET \o SP \o SLASH \o SP \o S_HTTP11 \o CRLF \o S_hdr,
     S_GET \o SP \o SLASH \o SP \o S_HTTP11 \o CRLF2,
     S_GET \o SP \o SLASH \o S_echo \o SLASH \o <<"x", " ", "y">> \o SP
         \o S_HTTP11 \o CRLF \o S_hdr \o CRLF2,
     Req(S_GET, SLASH \o S_echo \o SLASH \o <<"xFF">>, S_hdr, <<>>),
     Req(S_GET, SLASH, S_hdr, <<"xC3">>)}

WideRequests(argv, disk) ==
    {Req(m, t, h, b) : m \in Methods, t \in CoreTargets, h \in HeaderBlocks, b \in Bodies}
        \cup OddRequests
        \cup IF argv = <<S_prog>> /\ disk = Disk(SLASH, {FileEntry("rw", S_old)})
             THEN {Req(S_GET, t, S_hdr, <<>>) : t \in SweepTargets}
             ELSE {}

Init ==
    /\ main_pc = "bind"
    /\ args \in ArgLists
    /\ fs \in Disks(directory_of(args))
    /\ fs0 = fs
    /\ conns = <<>>

Next ==
    \/ BindOk
    \/ BindFail
    \/ Len(conns) < MaxConns /\ \E bytes \in Requests : Accept(bytes)
    \/ AcceptFail
    \/ \E c \in Conns : StartRead(c)
    \/ \E c \in Conns : ReadFail(c)
    \/ \E c \in Conns : ReadParse(c)
    \/ \E c \in Conns : Route(c)
    \/ \E c \in Conns : HandleSimple(c)
    \/ \E c \in Conns : FileOpen(c)
    \/ \E c \in Conns : FileRead(c)
    \/ \E c \in Conns : FileCreate(c)
    \/ \E c \in Conns : FileWrite(c)
    \/ \E c \in Conns : FileWriteBack(c)
    \/ \E c \in Conns : FileWriteLost(c)
    \/ \E c \in Conns : SocketWrite(c)
    \/ \E c \in Conns : \E k \in 0..MaxPartial : SocketWriteFail(c, k)
    \/ \E c \in Conns : Close(c)

\* the server: the accept loop and up to MaxConns concurrent connections
Spec == Init /\ [][Next]_vars

\* a second, pipelined request the client sends after the first was read
LateBytes == Req(S_GET, SLASH, S_hdr, <<>>)

InitOne ==
    /\ main_pc = "accept"
    /\ args \in ArgListsOne
    /\ fs \in DisksOne(directory_of(args))
    /\ fs0 = fs
    /\ conns = <<>>

NextOne ==
    \/ conns = <<>> /\ \E bytes \in WideRequests(args, fs0) : Accept(bytes)
    \/ \E c \in Conns : StartRead(c)
    \/ \E c \in Conns : ReadFail(c)
    \/ \E c \in Conns : ReadParse(c)
    \/ \E c \in Conns : ClientSend(c, LateBytes)
    \/ \E c \in Conns : Route(c)
    \/ \E c \in Conns : HandleSimple(c)
    \/ \E c \in Conns : FileOpen(c)
    \/ \E c \in Conns : FileRead(c)
    \/ \E c \in Conns : FileCreate(c)
    \/ \E c \in Conns : FileWrite(c)
    \/ \E c \in Conns : FileWriteBack(c)
    \/ \E c \in Conns : FileWriteLost(c)
    \/ \E c \in Conns : SocketWrite(c)
    \/ \E c \in Conns : \E k \in 0..MaxPartial : SocketWriteFail(c, k)
    \/ \E c \in Conns : Close(c)

\* one connection of a listening server, over the wide range of requests
SpecOne == InitOne /\ [][NextOne]_vars

(***************************************************************************)
(* Vocabulary of the properties.                                           *)
(***************************************************************************)
E_read == "couldn't read from TCP stream"
E_utf8 == "stream not in valid UTF-8"
E_parse == "couldn't parse HTTP request"
E_file_read == "couldn't read from file"
E_file_create == "couldn't create new file"
E_write == "couldn't write to TCP stream"

\* the handler has produced the connection's response
Responded(c) ==
    \/ conns[c].pc \in {"Handled", "Written", "Closed"}
    \/ conns[c].pc = "Failed" /\ conns[c].err = <<E_write>>

\* the whole response went out on the socket
Sent(c) == conns[c].pc \in {"Written", "Closed"}

\* the read returned text (the task got past from_utf8)
ReadText(c) ==
    /\ conns[c].pc \notin {"Accepted", "Reading"}
    /\ conns[c].err \notin {<<E_read>>, <<E_utf8>>}

\* the parser accepted the request
ParsedOk(c) ==
    /\ ReadText(c)
    /\ ~(conns[c].pc = "Failed" /\ conns[c].err[1] = E_parse)

IsProperPrefix(p, s) == Len(p) < Len(s) /\ p = SubSeq(s, 1, Len(p))

\* the value a decimal numeral denotes, -1 for anything else
RECURSIVE DecimalValue(_)
DecimalValue(digits) ==
    IF digits = <<>> \/ \E i \in 1..Len(digits) : digits[i] \notin
                            {"0", "1", "2", "3", "4", "5", "6", "7", "8", "9"}
    THEN -1
    ELSE LET last == digits[Len(digits)]
             d == CHOOSE n \in 0..9 : Digits[n + 1] = last
         IN  IF Len(digits) = 1 THEN d
             ELSE 10 * DecimalValue(SubSeq(digits, 1, Len(digits) - 1)) + d

\* the wire form of section 4.4 for a head without headers and for the
\* two-header head of a 200 with a body
W_200 == <<"H", "T", "T", "P", "/", "1", ".", "1", " ", "2", "0", "0", " ", "O", "K">>
W_404 == <<"H", "T", "T", "P", "/", "1", ".", "1", " ", "4", "0", "4", " ",
           "N", "o", "t", " ", "F", "o", "u", "n", "d">>
WireBare(statusLine) == statusLine \o CRLF \o CRLF2
WireBody(contentType, length, body) ==
    W_200 \o CRLF \o S_ContentType \o COLON_SP \o contentType \o CRLF
        \o S_ContentLength \o COLON_SP \o length \o CRLF2 \o body

(***************************************************************************)
(* C1.  As claimed: whenever a connection has failed, whatever the cause   *)
(* (socket read, encoding, parse, file read or create, socket write), no   *)
(* byte was written to its client.                                         *)
(***************************************************************************)
\* C1 as claimed: a failed connection has written nothing
C1_NoBytesOnAnyFailure ==
    \A c \in Conns : conns[c].pc = "Failed" => conns[c].out = <<>>

\* C1, amended: a connection that failed before its socket write wrote no
\* byte to its client; a connection whose socket write failed wrote a
\* proper prefix of its serialized response (possibly nothing), never the
\* whole response and never other bytes.
C1_FailureWritesAtMostPrefix ==
    \A c \in Conns :
        conns[c].pc = "Failed" =>
            IF conns[c].err = <<E_write>>
            THEN IsProperPrefix(conns[c].out,
                                parse_response_to_str(conns[c].response))
            ELSE conns[c].out = <<>>

\* C1 witness: a connection failed while reading a file it had opened
C1_Witness ==
    \E c \in Conns :
        /\ conns[c].pc = "Failed"
        /\ conns[c].err = <<E_file_read>>
        /\ conns[c].out = <<>>

(***************************************************************************)
(* C2.  As claimed: a text request whose request line has fewer than       *)
(* three space-separated tokens, or whose target does not start with '/',  *)
(* fails parsing and no byte is written to the client.                     *)
(***************************************************************************)
\* the request line as the client sent it: the text before the first CRLF
LineTokens(bytes) ==
    LET i == Find(bytes, CRLF)
    IN  split(IF i = 0 THEN bytes ELSE SubSeq(bytes, 1, i - 1), SP)

ShortLine(bytes) == Len(LineTokens(bytes)) < 3

SlashlessTarget(bytes) ==
    /\ Len(LineTokens(bytes)) >= 3
    /\ LET target == LineTokens(bytes)[2]
       IN  target = <<>> \/ target[1] # "/"

\* C2 as claimed: a short request line or a slash-less target fails parsing
\* and nothing is written
C2_ShortLineOrSlashlessFails ==
    \A c \in Conns :
        ReadText(c) /\ (ShortLine(conns[c].buf) \/ SlashlessTarget(conns[c].buf))
            => /\ conns[c].pc = "Failed"
               /\ conns[c].err[1] = E_parse
               /\ conns[c].out = <<>>

\* C2, amended: a text request whose request line has fewer than three
\* space-separated tokens fails parsing and no byte is written to the
\* client; a request whose target does not start with '/' does not fail
\* parsing for that: once parsed it is routed to NotFound and answered with
\* the 404 response.
C2_ShortLineFailsSlashlessIs404 ==
    \A c \in Conns :
        /\ ReadText(c) /\ ShortLine(conns[c].buf)
            => /\ conns[c].pc = "Failed"
               /\ conns[c].err[1] = E_parse
               /\ conns[c].out = <<>>
        /\ ParsedOk(c) /\ SlashlessTarget(conns[c].buf)
            => /\ conns[c].pc # "Parsed" => conns[c].endpoint = NotFound
               /\ Responded(c) =>
                    /\ conns[c].response.status_line.status_code = 404
                    /\ conns[c].response.headers = <<>>
                    /\ conns[c].response.body = <<>>
               /\ Sent(c) => conns[c].out = WireBare(W_404)
               /\ conns[c].pc = "Failed" => conns[c].err = <<E_write>>

\* C2 witness: a request for the target "echo/a" was answered in full
C2_Witness ==
    \E c \in Conns :
        /\ conns[c].pc = "Closed"
        /\ SlashlessTarget(conns[c].buf)
        /\ conns[c].request.request_line.target = S_echo \o SLASH \o S_a
        /\ conns[c].out = WireBare(W_404)

(***************************************************************************)
(* C3.  For every string s without '/', a request whose target is          *)
(* /echo/<s> is answered with status 200, the headers Content-Type:        *)
(* text/plain and Content-Length: <byte length of s>, and the body s.      *)
(***************************************************************************)
T_echo_ == SLASH \o S_echo \o SLASH

IsEchoTarget(target) ==
    /\ Len(target) >= Len(T_echo_)
    /\ SubSeq(target, 1, Len(T_echo_)) = T_echo_
    /\ \A i \in (Len(T_echo_) + 1)..Len(target) : target[i] # "/"

\* C3: /echo/<s> is answered 200, text/plain, Content-Length |s|, body s
C3_EchoRoundTrip ==
    \A c \in Conns :
        ParsedOk(c) /\ IsEchoTarget(conns[c].request.request_line.target) =>
            LET s == Drop(conns[c].request.request_line.target, Len(T_echo_))
                response == conns[c].response
            IN  /\ conns[c].pc = "Failed" => conns[c].err = <<E_write>>
                /\ Responded(c) =>
                    /\ response.status_line.status_code = 200
                    /\ Len(response.headers) = 2
                    /\ response.headers[1] =
                           [key |-> S_ContentType, value |-> S_text_plain]
                    /\ response.headers[2].key = S_ContentLength
                    /\ DecimalValue(response.headers[2].value) = Len(s)
                    /\ response.body = s
                /\ Sent(c) =>
                    conns[c].out =
                        WireBody(S_text_plain, response.headers[2].value, s)

\* C3 witness: /echo/<x e-acute>, three bytes in two characters, answered
C3_Witness ==
    \E c \in Conns :
        /\ conns[c].pc = "Closed"
        /\ conns[c].request.request_line.target
               = T_echo_ \o <<"x", "xC3", "xA9">>
        /\ conns[c].response.body = <<"x", "xC3", "xA9">>
        /\ conns[c].response.headers[2].value = <<"3">>

(***************************************************************************)
(* C4.  As claimed: a POST /files/<name> with body B that completed (its   *)
(* 201 was sent and the connection closed), followed by a GET for the same *)
(* path on a connection accepted afterwards, with no other connection      *)
(* posting to that path, yields status 200 and the body B.                 *)
(***************************************************************************)
PostsTo(d, path) ==
    /\ conns[d].request.request_line.method = S_POST
    /\ conns[d].file_path = path

\* C4 as claimed: a GET after a completed POST of B returns 200 and B
C4_PostThenGetReturnsBody ==
    \A p \in Conns : \A g \in Conns :
        (/\ conns[p].pc = "Closed"
         /\ conns[p].endpoint.tag = "File"
         /\ conns[p].response.status_line.status_code = 201
         /\ p \in conns[g].prior
         /\ conns[g].endpoint.tag = "File"
         /\ conns[g].request.request_line.method = S_GET
         /\ conns[g].file_path = conns[p].file_path
         /\ \A d \in Conns \ {p} : ~PostsTo(d, conns[p].file_path)
         /\ Responded(g) \/ conns[g].pc = "Failed")
            => /\ Responded(g)
               /\ conns[g].response.status_line.status_code = 200
               /\ conns[g].response.body = conns[p].request.body

(***************************************************************************)
(* C5.  As claimed: for File(name) with GET, every failure to read the     *)
(* file (the file is missing, may not be read, or its contents cannot be   *)
(* read as text) ends in the NotFound response being written.              *)
(***************************************************************************)
\* the handler of a GET on a File endpoint has run to its end
GetFileDone(c) ==
    /\ conns[c].endpoint.tag = "File"
    /\ conns[c].request.request_line.method = S_GET
    /\ \/ Responded(c)
       \/ conns[c].pc = "Failed" /\ conns[c].err = <<E_file_read>>

Missing(path) == path \notin DOMAIN fs

Denied(path) == path \in DOMAIN fs /\ fs[path].mode = "none"

\* the path opens, but what is there cannot be read as text
NotText(path) ==
    /\ path \in DOMAIN fs
    /\ fs[path].mode # "none"
    /\ fs[path].kind = "dir" \/ \E i \in 1..Len(fs[path].data) : fs[path].data[i] = "xFF"

Is404(c) ==
    /\ Responded(c)
    /\ conns[c].response.status_line.status_code = 404
    /\ conns[c].response.status_line.status_text = S_NotFound
    /\ conns[c].response.headers = <<>>
    /\ conns[c].response.body = <<>>
    /\ Sent(c) => conns[c].out = WireBare(W_404)

\* C5 as claimed: a GET of a file that cannot be read is answered 404
C5_EveryReadFailureIs404 ==
    \A c \in Conns :
        GetFileDone(c)
            /\ (Missing(conns[c].file_path) \/ Denied(conns[c].file_path)
                    \/ NotText(conns[c].file_path))
            => Is404(c)

\* C5, amended: for File(name) with GET, every failure to open the file
\* (not found, permission denied) results in the NotFound response (404, no
\* headers, empty body), with no distinction between the causes; an error
\* while reading the contents of a file that opened fails the connection
\* with "couldn't read from file" and nothing is written to the client.
C5_OpenFailureIs404ReadFailureAborts ==
    \A c \in Conns :
        GetFileDone(c) =>
            /\ Missing(conns[c].file_path) \/ Denied(conns[c].file_path)
                   => Is404(c)
            /\ NotText(conns[c].file_path)
                   => /\ conns[c].pc = "Failed"
                      /\ conns[c].err = <<E_file_read>>
                      /\ conns[c].out = <<>>

\* C5 witness: a GET for a file the process may not read was answered 404
C5_Witness ==
    \E c \in Conns :
        /\ GetFileDone(c)
        /\ Denied(conns[c].file_path)
        /\ conns[c].pc = "Closed"

(***************************************************************************)
(* C6.  A GET /files/<name> where no file exists at the resolved path is   *)
(* answered with status 404, no headers and an empty body.                 *)
(***************************************************************************)
\* C6: a GET of a path that does not exist is answered 404, bare
C6_MissingFileIs404 ==
    \A c \in Conns :
        (/\ ParsedOk(c)
         /\ conns[c].pc \notin {"Parsed", "Routed"}
         /\ conns[c].endpoint.tag = "File"
         /\ conns[c].request.request_line.method = S_GET
         /\ directory_of(args) \o conns[c].endpoint.arg \notin DOMAIN fs)
            => /\ conns[c].pc \in {"Handled", "Written", "Closed", "Failed"}
               /\ conns[c].pc = "Failed" => conns[c].err = <<E_write>>
               /\ conns[c].response.status_line.status_code = 404
               /\ conns[c].response.headers = <<>>
               /\ conns[c].response.body = <<>>
               /\ Sent(c) => conns[c].out = WireBare(W_404)

\* C6 witness: GET /files/a with no file "a" under the base directory /d/
C6_Witness ==
    \E c \in Conns :
        /\ conns[c].pc = "Closed"
        /\ conns[c].request.request_line.method = S_GET
        /\ conns[c].request.request_line.target = T_files_a
        /\ conns[c].file_path = S_dir \o S_a
        /\ conns[c].file_path \notin DOMAIN fs
        /\ conns[c].out = WireBare(W_404)

(***************************************************************************)
(* C7.  For every request to /user-agent the response is a 200 whose body  *)
(* is the value of the first header, in arrival order, whose key is        *)
(* literally "User-Agent", also when several headers carry the key; with   *)
(* no such header the body is empty.                                       *)
(***************************************************************************)
T_user_agent == SLASH \o S_user_agent

\* the value of the first header in hs with the key, "" when there is none
RECURSIVE FirstValue(_, _)
FirstValue(hs, key) ==
    IF hs = <<>> THEN <<>>
    ELSE IF hs[1].key = key THEN hs[1].value
    ELSE FirstValue(Tail(hs), key)

\* the client sent a request for /user-agent with this header block
SentUserAgentRequest(c, block) ==
    \E m \in Methods : \E b \in Bodies :
        conns[c].buf = Req(m, T_user_agent, block, b)

\* C7: /user-agent answers 200 with the first User-Agent value, or ""
C7_UserAgentFirstMatch ==
    \A c \in Conns :
        ParsedOk(c) /\ conns[c].request.request_line.target = T_user_agent =>
            LET response == conns[c].response
            IN  /\ conns[c].pc = "Failed" => conns[c].err = <<E_write>>
                /\ Responded(c) =>
                    /\ response.status_line.status_code = 200
                    /\ response.body =
                           FirstValue(conns[c].request.headers, S_UserAgent)
                    /\ Len(response.headers) = 2
                    /\ response.headers[1] =
                           [key |-> S_ContentType, value |-> S_text_plain]
                    /\ response.headers[2].key = S_ContentLength
                    /\ DecimalValue(response.headers[2].value) = Len(response.body)
                    \* "User-Agent: c" then "User-Agent: d"
                    /\ SentUserAgentRequest(c, S_hdr \o CRLF \o S_UserAgent
                                                  \o COLON_SP \o <<"d">>)
                           => response.body = <<"c">>
                    \* "H: h" then "User-Agent: c: e"
                    /\ SentUserAgentRequest(c, <<"H">> \o COLON_SP \o <<"h">> \o CRLF
                                                  \o S_hdr \o COLON_SP \o <<"e">>)
                           => response.body = <<"c">> \o COLON_SP \o <<"e">>
                    \* only "user-agent: c" and only "Content-Length: 5"
                    /\ SentUserAgentRequest(c, S_user_agent \o COLON_SP \o <<"c">>)
                        \/ SentUserAgentRequest(c, S_ContentLength \o COLON_SP \o <<"5">>)
                           => /\ response.body = <<>>
                              /\ response.headers[2].value = <<"0">>
                /\ Sent(c) =>
                    conns[c].out = WireBody(S_text_plain,
                                            response.headers[2].value,
                                            response.body)

\* C7 witness: two User-Agent headers, c before d, answered with body c
C7_Witness ==
    \E c \in Conns :
        /\ conns[c].pc = "Closed"
        /\ SentUserAgentRequest(c, S_hdr \o CRLF \o S_UserAgent \o COLON_SP \o <<"d">>)
        /\ Len(conns[c].request.headers) = 2
        /\ conns[c].request.headers[2].value = <<"d">>
        /\ conns[c].out = WireBody(S_text_plain, <<"1">>, <<"c">>)

(***************************************************************************)
(* C8.  For every well-formed request whose target is "/", whatever its    *)
(* method, headers and body, the response is status 200, no headers and an *)
(* empty body.                                                             *)
(***************************************************************************)
\* C8: a parsed request for "/" is answered 200, no headers, empty body
C8_IndexIs200 ==
    \A c \in Conns :
        ParsedOk(c) /\ conns[c].request.request_line.target = SLASH =>
            /\ conns[c].pc = "Failed" => conns[c].err = <<E_write>>
            /\ Responded(c) =>
                /\ conns[c].response.status_line.status_code = 200
                /\ conns[c].response.status_line.status_text = S_OK
                /\ conns[c].response.headers = <<>>
                /\ conns[c].response.body = <<>>
            /\ Sent(c) => conns[c].out = WireBare(W_200)

\* C8 witness: a POST of "/" with two headers and a body, answered
C8_Witness ==
    \E c \in Conns :
        /\ conns[c].pc = "Closed"
        /\ conns[c].request.request_line.target = SLASH
        /\ conns[c].request.request_line.method = S_POST
        /\ Len(conns[c].request.headers) = 2
        /\ conns[c].request.body # <<>>
        /\ conns[c].out = WireBare(W_200)

(***************************************************************************)
(* C9.  As claimed: when the headers block between the request line's      *)
(* CRLF and the double-CRLF delimiter is empty, parsing succeeds and       *)
(* yields an empty header sequence.                                        *)
(***************************************************************************)
\* a request line of three tokens or more, its CRLF, then at once the
\* double CRLF
EmptyHeadersBlock(bytes) ==
    LET i == Find(bytes, CRLF)
    IN  /\ i # 0
        /\ Len(LineTokens(bytes)) >= 3
        /\ MatchAt(bytes, CRLF2, i + Len(CRLF))

\* C9 as claimed: a request with an empty headers block parses, giving no
\* headers
C9_ZeroHeadersParse ==
    \A c \in Conns :
        ReadText(c) /\ EmptyHeadersBlock(conns[c].buf)
            => ParsedOk(c) /\ conns[c].request.headers = <<>>

(***************************************************************************)
(* C10.  As claimed: when all connections of a run have been answered,     *)
(* their responses are those of handling the same requests one after the   *)
(* other, in some order, starting from the disk the server started with.   *)
(***************************************************************************)
Orders(n) == {f \in [1..n -> 1..n] : \A i, j \in 1..n : i # j => f[i] # f[j]}

\* the disk after a POST of body to path has been handled on its own
Posted(disk, path, body) ==
    [q \in DOMAIN disk \cup {path} |->
        IF q = path THEN [kind |-> "file", mode |-> "rw", data |-> body]
        ELSE disk[q]]

\* the responses are those of handling order[k], order[k+1], ... in turn
RECURSIVE SerialReplay(_, _, _)
SerialReplay(order, k, disk) ==
    IF k > Len(conns) THEN TRUE
    ELSE LET r == conns[order[k]]
             isFile == r.endpoint.tag = "File"
             method == r.request.request_line.method
         IN  IF isFile /\ method = S_GET
             THEN /\ r.response.body =
                        (IF r.file_path \in DOMAIN disk
                         THEN disk[r.file_path].data ELSE <<>>)
                  /\ r.response.status_line.status_code =
                        (IF r.file_path \in DOMAIN disk THEN 200 ELSE 404)
                  /\ SerialReplay(order, k + 1, disk)
             ELSE IF isFile /\ method = S_POST
             THEN /\ r.response.status_line.status_code = 201
                  /\ SerialReplay(order, k + 1,
                                  Posted(disk, r.file_path, r.request.body))
             ELSE SerialReplay(order, k + 1, disk)

\* C10 as claimed: the responses of a finished run are those of some serial
\* order
C10_ResponsesSerializable ==
    (conns # <<>> /\ \A c \in Conns : conns[c].pc = "Closed")
        => \E order \in Orders(Len(conns)) : SerialReplay(order, 1, fs0)

(***************************************************************************)
(* C11.  A failure of one connection affects neither the other connections *)
(* nor the listener: the step in which a connection fails changes nothing  *)
(* but that connection, and the process ends only by a bind or accept      *)
(* error.                                                                  *)
(***************************************************************************)
\* in this step connection c fails
Fails(c) ==
    /\ conns[c].pc # "Failed"
    /\ Len(conns') = Len(conns)
    /\ conns'[c].pc = "Failed"

\* C11: a connection's failure is confined to that connection: the step in
\* which it fails leaves the accept loop, the filesystem and every other
\* connection as they were, and the process exits only by a step of the
\* accept loop itself, which changes no connection
C11_FailureIsIsolated ==
    [][/\ \A c \in Conns :
            Fails(c) => /\ main_pc' = main_pc
                        /\ fs' = fs
                        /\ \A d \in Conns \ {c} : conns'[d] = conns[d]
       /\ main_pc # "exited" /\ main_pc' = "exited" => conns' = conns]_vars

\* C11 witness: connection 1 failed in parsing, and connection 2, accepted
\* with connection 1 still unfinished, was answered in full afterwards
C11_Witness ==
    /\ Len(conns) >= 2
    /\ conns[1].pc = "Failed"
    /\ conns[1].err[1] = E_parse
    /\ conns[2].pc = "Closed"
    /\ conns[2].prior = {}
    /\ Running

(***************************************************************************)
(* C12.  Serializing a response and parsing the result again with the      *)
(* request parser gives back the response's headers and body.              *)
(***************************************************************************)
\* the serialized form of the response of connection c, parsed once more
Reparsed(c) == parse_str_to_request(parse_response_to_str(conns[c].response))

\* C12 as claimed: every response a handler produced, those without headers
\* included, re-parses to its own ordered header sequence and its own body
C12_ResponseRoundTrip ==
    \A c \in Conns :
        Responded(c) =>
            /\ Reparsed(c).ok
            /\ Reparsed(c).val.headers = conns[c].response.headers
            /\ Reparsed(c).val.body = conns[c].response.body

(***************************************************************************)
(* C13.  One exchange per connection: one socket read of at most 32 KiB,   *)
(* nothing the client sends later is consumed, at most one response is     *)
(* written, after the read, and then the connection is closed.             *)
(***************************************************************************)
IsPrefix(p, s) == Len(p) <= Len(s) /\ p = SubSeq(s, 1, Len(p))

\* connection c has done its socket read
HasRead(c) == conns[c].pc \notin {"Accepted", "Reading"}

\* C13: per connection, the only step that takes bytes from the socket is
\* the one leaving Reading, it takes at most MAX_REQUEST_SIZE bytes and
\* Reading is never entered again; afterwards the bytes the client sends stay
\* unread; bytes go out only in the one step leaving Handled, they are (a
\* prefix of) the one response, and after the response the connection can
\* only close
C13_OneExchange ==
    [][\A c \in Conns :
          /\ conns'[c].pc = "Reading" /\ conns[c].pc # "Reading"
                => conns[c].pc = "Accepted"
          /\ conns'[c].buf # conns[c].buf
                => /\ conns[c].pc = "Reading"
                   /\ conns[c].buf = <<>>
                   /\ Len(conns'[c].buf) <= MAX_REQUEST_SIZE
          /\ HasRead(c) => /\ conns'[c].buf = conns[c].buf
                           /\ IsPrefix(conns[c].inbox, conns'[c].inbox)
          /\ conns'[c].out # conns[c].out
                => /\ conns[c].pc = "Handled"
                   /\ conns[c].out = <<>>
                   /\ IsPrefix(conns'[c].out,
                               parse_response_to_str(conns[c].response))
          /\ conns[c].pc = "Written" => conns'[c].pc \in {"Written", "Closed"}
          /\ conns[c].pc = "Closed" => conns'[c].pc = "Closed"]_vars

\* C13 witness: the client sent a second request after the read; the
\* connection answered the first one and closed with the second unread
C13_Witness ==
    \E c \in Conns :
        /\ conns[c].pc = "Closed"
        /\ conns[c].inbox = LateBytes
        /\ conns[c].buf # <<>>
        /\ conns[c].out = parse_response_to_str(conns[c].response)

(***************************************************************************)
(* C14.  The phases of a connection: Accepted, Reading, Parsed, Routed,    *)
(* Handled, Written, Closed in that order, and the absorbing Failed.       *)
(***************************************************************************)
PhaseNames == <<"Accepted", "Reading", "Parsed", "Routed", "Handled",
                "Written", "Closed">>

\* the phase of a task position: while the File handler awaits the
\* filesystem the endpoint is known and no response exists yet
Phase(pc) == IF pc \in {"FileOpened", "FileCreated"} THEN "Routed" ELSE pc

Rank(pc) == CHOOSE i \in 1..Len(PhaseNames) : PhaseNames[i] = Phase(pc)

\* a step takes connection c to the next phase, keeps it in its phase, or
\* fails it from one of the phases in `from`; Failed is never left
PhaseStep(c, from) ==
    IF conns[c].pc = "Failed" THEN conns'[c].pc = "Failed"
    ELSE IF conns'[c].pc = "Failed" THEN Phase(conns[c].pc) \in from
    ELSE Rank(conns'[c].pc) \in {Rank(conns[c].pc), Rank(conns[c].pc) + 1}

\* C14 as claimed: Failed is entered only from Reading, Parsed or Handled
C14_FailedFromReadingParsedHandled ==
    [][\A c \in Conns : PhaseStep(c, {"Reading", "Parsed", "Handled"})]_vars

\* C14: phases advance one at a time in order, Failed is absorbing and is
\* entered only from Reading, Routed or Handled
C14_FailedFromReadingRoutedHandled ==
    [][\A c \in Conns : PhaseStep(c, {"Reading", "Routed", "Handled"})]_vars

\* C14 witness: a connection failed in the File handler, after routing
C14_Witness ==
    \E c \in Conns :
        /\ conns[c].pc = "Failed"
        /\ conns[c].endpoint.tag = "File"
        /\ conns[c].err = <<E_file_read>>

(***************************************************************************)
(* C15.  File with POST: the 201 goes out only once the file holds the     *)
(* body; a failure to create or to write the file fails the connection     *)
(* without a response.                                                     *)
(***************************************************************************)
\* connection c is a POST routed to File
IsPost(c) ==
    /\ ParsedOk(c)
    /\ conns[c].pc \notin {"Parsed"}
    /\ conns[c].endpoint.tag = "File"
    /\ conns[c].request.request_line.method = S_POST

\* C15 as claimed: when bytes of a POST's response have gone out, the file at
\* its path exists and holds the whole request body; a POST that could not
\* create its file has failed and sent nothing
C15_CreatedAfterFileWritten ==
    \A c \in Conns :
        IsPost(c) =>
            /\ conns[c].out # <<>> =>
                    /\ conns[c].file_path \in DOMAIN fs
                    /\ fs[conns[c].file_path].data = conns[c].request.body
            /\ conns[c].err = <<E_file_create>> => conns[c].out = <<>>

(***************************************************************************)
(* C16.  The router is a total function of the target that looks at the    *)
(* first path segment and, for echo and files, at the one after it.        *)
(***************************************************************************)
\* the endpoint the routing table names for a target whose segments (the
\* pieces between slashes, after the leading one) are segs; `bare` is the
\* endpoint of an empty first segment
Routing(target, bare) ==
    LET pieces == split(target, SLASH)
        segs == Tail(pieces)
    IN  IF target = <<>> \/ Head(target) # "/" THEN NotFound
        ELSE IF segs[1] = <<"e", "c", "h", "o">>
        THEN IF Len(segs) >= 2 THEN Echo(segs[2]) ELSE NotFound
        ELSE IF segs[1] = <<"f", "i", "l", "e", "s">>
        THEN IF Len(segs) >= 2 THEN File(segs[2]) ELSE NotFound
        ELSE IF segs[1] = <<"u", "s", "e", "r", "-", "a", "g", "e", "n", "t">>
        THEN UserAgent
        ELSE IF segs[1] = <<>> THEN bare
        ELSE NotFound

\* connection c has been routed
IsRouted(c) ==
    ParsedOk(c) /\ conns[c].pc \notin {"Parsed"}

\* C16 as claimed: every first segment other than echo, files and
\* user-agent, the empty one included, gives NotFound
C16_OtherFirstSegmentIsNotFound ==
    \A c \in Conns :
        IsRouted(c) =>
            conns[c].endpoint = Routing(conns[c].request.request_line.target, NotFound)

\* C16: the endpoint is the routing table's, with an empty first segment
\* giving Index whatever follows it
C16_RouterIsTotalOnTwoSegments ==
    \A c \in Conns :
        IsRouted(c) =>
            conns[c].endpoint = Routing(conns[c].request.request_line.target, Index)

\* C16 witness: /files/a/.. was routed to File(a), the third segment ignored
C16_Witness ==
    \E c \in Conns :
        /\ IsRouted(c)
        /\ conns[c].request.request_line.target
               = <<"/", "f", "i", "l", "e", "s", "/", "a", "/", ".", ".">>
        /\ conns[c].endpoint = File(<<"a">>)

(***************************************************************************)
(* C17.  Only a File request with method POST changes the filesystem, and  *)
(* only at the path resolved for its own name.                             *)
(***************************************************************************)
\* the step changed nothing of the disk but, possibly, the entry at path
OnlyChanges(path) ==
    \A q \in (DOMAIN fs \cup DOMAIN fs') \ {path} :
        q \in DOMAIN fs /\ q \in DOMAIN fs' /\ fs'[q] = fs[q]

\* C17: every step that changes the disk is a step of a connection routed
\* to File with method POST, and changes at most the entry at the base
\* directory followed by that connection's file name; so no step of any
\* other request changes a file's existence or contents
C17_OnlyPostChangesItsFile ==
    [][fs' # fs =>
          \E c \in Conns :
              /\ conns'[c] # conns[c]
              /\ IsPost(c)
              /\ OnlyChanges(directory_of(args) \o conns[c].endpoint.arg)]_vars

\* C17 witness: a POST created the file b and wrote it, next to a file a
\* that is as it was
C17_Witness ==
    \E c \in Conns :
        /\ IsPost(c)
        /\ conns[c].pc = "Closed"
        /\ conns[c].endpoint.arg = <<"b">>
        /\ fs[conns[c].file_path].data = conns[c].request.body
        /\ conns[c].request.body # <<>>
        /\ \E q \in DOMAIN fs0 : fs0[q].kind = "file" /\ fs[q] = fs0[q]

(***************************************************************************)
(* C18.  The body is what follows the first double CRLF of the request,    *)
(* verbatim, whatever a Content-Length header says.                        *)
(***************************************************************************)
\* the positions at which a double CRLF starts in s
DoubleCRLFs(s) ==
    {i \in 1..Len(s) - 3 : SubSeq(s, i, i + 3) = <<"\r", "\n", "\r", "\n">>}

\* the text after the first double CRLF of s
AfterFirstDoubleCRLF(s) ==
    LET i == CHOOSE k \in DoubleCRLFs(s) : \A j \in DoubleCRLFs(s) : k <= j
    IN  SubSeq(s, i + 4, Len(s))

\* a headers block whose Content-Length fits none of the bodies sent
H_length5 == <<"C", "o", "n", "t", "e", "n", "t", "-", "L", "e", "n", "g", "t", "h",
               ":", " ", "5">>

\* C18: the body of every parsed request is the text after the first double
\* CRLF of the bytes read, and a request whose Content-Length differs from
\* its body's length is parsed, its body whole
C18_BodyIsRestAfterDoubleCRLF ==
    \A c \in Conns :
        /\ ParsedOk(c) =>
               /\ DoubleCRLFs(conns[c].buf) # {}
               /\ conns[c].request.body = AfterFirstDoubleCRLF(conns[c].buf)
        /\ \A m \in Methods : \A t \in CoreTargets : \A b \in Bodies :
               ReadText(c) /\ conns[c].buf = Req(m, t, H_length5, b) =>
                   ParsedOk(c) /\ conns[c].request.body = b

\* C18 witness: a parsed request announcing five bytes whose body holds a
\* double CRLF of its own
C18_Witness ==
    \E c \in Conns :
        /\ ParsedOk(c)
        /\ conns[c].request.headers
               = <<[key |-> S_ContentLength, value |-> <<"5">>]>>
        /\ conns[c].request.body = <<"a", "\r", "\n", "\r", "\n", "b">>

(***************************************************************************)
(* C19.  The shape of every response the server writes.                    *)
(***************************************************************************)
\* C19: the status is 200, 201 or 404, and the response has either no
\* headers and an empty body or the two headers Content-Type and
\* Content-Length, in that order, the latter a numeral of the body's length
\* in bytes
C19_ResponseShape ==
    \A c \in Conns :
        Responded(c) =>
            LET response == conns[c].response
            IN  /\ response.status_line.status_code \in {200, 201, 404}
                /\ \/ response.headers = <<>> /\ response.body = <<>>
                   \/ /\ Len(response.headers) = 2
                      /\ response.headers[1].key
                             = <<"C", "o", "n", "t", "e", "n", "t", "-",
                                 "T", "y", "p", "e">>
                      /\ response.headers[2].key
                             = <<"C", "o", "n", "t", "e", "n", "t", "-",
                                 "L", "e", "n", "g", "t", "h">>
                      /\ DecimalValue(response.headers[2].value)
                             = Len(response.body)

\* C19 witness: a file of four bytes, one character of them two bytes long,
\* went out whole with Content-Length 4
C19_Witness ==
    \E c \in Conns :
        /\ Sent(c)
        /\ conns[c].endpoint.tag = "File"
        /\ conns[c].response.body = <<"o", "l", "xC3", "xA9">>
        /\ conns[c].response.headers[2].value = <<"4">>

(***************************************************************************)
(* C20.  The file name of a File endpoint holds no slash, so the path the  *)
(* handler opens or creates is the base directory followed by one          *)
(* slash-free segment, with no "../" from the request.                     *)
(***************************************************************************)
\* s holds the text "../"
HasDotDotSlash(s) ==
    \E i \in 1..Len(s) - 2 : SubSeq(s, i, i + 2) = <<".", ".", "/">>

\* c is a File request whose handler has named the path it opens or creates
NamedPath(c) ==
    /\ IsRouted(c)
    /\ conns[c].endpoint.tag = "File"
    /\ conns[c].request.request_line.method
           \in {<<"G", "E", "T">>, <<"P", "O", "S", "T">>}
    /\ conns[c].pc # "Routed"

\* C20: a File endpoint's name holds no slash; the path handed to File::open
\* or File::create is the base directory string followed by that name and
\* nothing else, so what the request adds to the path holds no "../"
C20_FileNameIsOneSegment ==
    \A c \in Conns :
        /\ IsRouted(c) /\ conns[c].endpoint.tag = "File" =>
               \A i \in 1..Len(conns[c].endpoint.arg) :
                   conns[c].endpoint.arg[i] # "/"
        /\ NamedPath(c) =>
               LET base == directory_of(args)
                   added == SubSeq(conns[c].file_path, Len(base) + 1,
                                   Len(conns[c].file_path))
               IN  /\ Len(conns[c].file_path) >= Len(base)
                   /\ SubSeq(conns[c].file_path, 1, Len(base)) = base
                   /\ added = conns[c].endpoint.arg
                   /\ \A i \in 1..Len(added) : added[i] # "/"
                   /\ ~HasDotDotSlash(added)

\* C20 witness: GET /files/../a was handled as the one name ".." under the
\* base directory, the segment after it ignored
C20_Witness ==
    \E c \in Conns :
        /\ NamedPath(c)
        /\ conns[c].request.request_line.target
               = <<"/", "f", "i", "l", "e", "s", "/", ".", ".", "/", "a">>
        /\ conns[c].file_path = <<"/", ".", ".">>
        /\ Sent(c)
====
